---- MODULE Spec2Model ----
(***************************************************************************)
(* EventFlow: the work-entry ("prestation") lifecycle as the admin         *)
(* dashboard, the collaborator dashboard and the client-management pages   *)
(* drive it against the shared Supabase tables, the monthly invoice        *)
(* generation behind POST /routes/generate-monthly-invoices, and the       *)
(* sign-in state kept by the AuthProvider and the dashboard's role check.  *)
(*                                                                         *)
(* Units.  heures_calculees is kept in 1/6000 of an hour, so that both the *)
(* collaborator's value (rounded to 2 decimals: a multiple of 60) and the  *)
(* admin's value (hours + minutes/60, unrounded: a multiple of 100) are    *)
(* integers.  An amount is heures_calculees * tarif, in 1/6000 of a euro.  *)
(***************************************************************************)
EXTENDS Integers, Sequences, FiniteSets, TLC

\* ------------------------------------------------------------------ bounds

\* Rows the prestations table may hold.
MaxPrestations == 1
\* Hourly rates are 1..MaxRate (and null: no rate configured).
MaxRate == 2
\* Rows the prestations table may hold when invoicing starts.
MaxValidated == 2

\* ----------------------------------------------------------------- domains

\* null and undefined of a text-valued field.
Null == "null"
Undefined == "undefined"
\* null of a number-valued field (a tarif, a parsed time), and NaN: no number
\* the program computes with is negative.
NullNumber == -1
NaN == NullNumber
\* No row: the null of editingPrestation (ids start at 1).
NoPrestation == 0
\* A date picker left without a date.
NoDate == <<>>

ClientIds == {"cA", "cB"}
\* projects.client_id of the projects table.
ProjectClient == [pA |-> "cA", pB |-> "cB"]
ProjectIds == DOMAIN ProjectClient
Rates == 1..MaxRate
\* Admin browser sessions of the validation dashboard.
Sessions == {"a1", "a2"}
\* date_prestation, as <<year, month, day>> of its yyyy-MM-dd text.
Dates == {<<2025, 1, 15>>, <<2025, 2, 10>>}
\* Clock texts are sequences of characters.
T0900 == <<"0", "9", ":", "0", "0">>
T1700 == <<"1", "7", ":", "0", "0">>
Times == {T0900, T1700}
T0910 == <<"0", "9", ":", "1", "0">>
T2200 == <<"2", "2", ":", "0", "0">>
T0200 == <<"0", "2", ":", "0", "0">>
\* The value of a time input that has been cleared.
TEmpty == <<>>

HourUnits == 6000

\* ------------------------------------------------------- text and numbers

DigitChars == {"0", "1", "2", "3", "4", "5", "6", "7", "8", "9"}

DigitVal(ch) ==
  CASE ch = "0" -> 0 [] ch = "1" -> 1 [] ch = "2" -> 2 [] ch = "3" -> 3
    [] ch = "4" -> 4 [] ch = "5" -> 5 [] ch = "6" -> 6 [] ch = "7" -> 7
    [] ch = "8" -> 8 [] ch = "9" -> 9

\* timeStr.includes(':')
includesColon(str) == \E i \in 1..Len(str) : str[i] = ":"

\* Position of the n-th ':' of str, or Len(str) + 1 when there is none.
RECURSIVE colonAt(_, _, _)
colonAt(str, from, n) ==
  IF from > Len(str) THEN Len(str) + 1
  ELSE IF str[from] = ":"
       THEN IF n = 1 THEN from ELSE colonAt(str, from + 1, n - 1)
       ELSE colonAt(str, from + 1, n)

\* timeStr.split(':')[0] and timeStr.split(':')[1]
splitPart0(str) == SubSeq(str, 1, colonAt(str, 1, 1) - 1)
splitPart1(str) == SubSeq(str, colonAt(str, 1, 1) + 1, colonAt(str, 1, 2) - 1)

\* parseInt(text, 10): the number its leading digits spell, NaN without any.
RECURSIVE parseIntAcc(_, _, _)
parseIntAcc(str, i, acc) ==
  IF i > Len(str) \/ str[i] \notin DigitChars THEN acc
  ELSE parseIntAcc(str, i + 1, acc * 10 + DigitVal(str[i]))

parseInt(str) ==
  IF Len(str) = 0 \/ str[1] \notin DigitChars THEN NaN ELSE parseIntAcc(str, 1, 0)

\* The dashboards' parseTime: hours + minutes / 60, in HourUnits; null when the
\* text is empty, holds no ':' or a part is not a number.
parseTime(timeStr) ==
  IF Len(timeStr) = 0 \/ ~includesColon(timeStr) THEN NullNumber
  ELSE LET hours == parseInt(splitPart0(timeStr))
           minutes == parseInt(splitPart1(timeStr))
       IN IF hours = NaN \/ minutes = NaN THEN NullNumber
          ELSE hours * HourUnits + minutes * (HourUnits \div 60)

\* The admin handlers' recomputation: end - start when both parse and
\* end > start, otherwise 0.
heuresCalculeesFinal(heureDebut, heureFin) ==
  LET start == parseTime(heureDebut)
      end == parseTime(heureFin)
  IN IF start # NullNumber /\ end # NullNumber /\ end > start THEN end - start ELSE 0

\* /^([01]\d|2[0-3]):([0-5]\d)$/
matchesHHMM(str) ==
  /\ Len(str) = 5
  /\ str[3] = ":"
  /\ \/ str[1] \in {"0", "1"} /\ str[2] \in DigitChars
     \/ str[1] = "2" /\ str[2] \in {"0", "1", "2", "3"}
  /\ str[4] \in {"0", "1", "2", "3", "4", "5"}
  /\ str[5] \in DigitChars

\* split(':').map(Number) of a text that matched the pattern, in minutes.
minutesOfDay(str) ==
  (DigitVal(str[1]) * 10 + DigitVal(str[2])) * 60 + DigitVal(str[4]) * 10 + DigitVal(str[5])

\* The schema's refine: the end is pushed to the next day when it is not after
\* the start, then compared with the start.
refineEndAfterStart(heureDebut, heureFin) ==
  LET startTime == minutesOfDay(heureDebut)
      endTime0 == minutesOfDay(heureFin)
      endTime == IF endTime0 <= startTime THEN endTime0 + 24 * 60 ELSE endTime0
  IN endTime > startTime

\* Number(x.toFixed(2)) of minutes / 60, in HourUnits.
toFixed2(minutes) == ((minutes * 100 + 30) \div 60) * (HourUnits \div 100)

\* The collaborator's onSubmit: endDate moves to the next day when
\* endDate <= startDate; the duration in hours, rounded to 2 decimals.
collaborateurHeures(heureDebut, heureFin) ==
  LET startMin == minutesOfDay(heureDebut)
      endMin0 == minutesOfDay(heureFin)
      endMin == IF endMin0 <= startMin THEN endMin0 + 24 * 60 ELSE endMin0
  IN toFixed2(endMin - startMin)

\* ------------------------------------------------------------------- state

VARIABLES
  clients,             \* clients table: id -> tarif_horaire (a rate or null)
  prestations,         \* prestations table: the rows, by id 1..Len
  pendingPrestations,  \* per session: the fetched pending rows, id -> client_id
  editingPrestation,   \* per session: the row open in the modal, or null
  pc,                  \* per session: the handler awaiting the store
  toast,               \* the notification the last step raised: who, what
  invoices,            \* invoices table: the rows, by id 1..Len
  run,                 \* per invoice run: the batch's progress
  profile,             \* the signed-in user's stored profile row
  authProvider,        \* AuthProvider: loading, session, user, location
  adminPage            \* the validation dashboard's role check

vars == <<clients, prestations, pendingPrestations, editingPrestation, pc, toast,
          invoices, run, profile, authProvider, adminPage>>

\* The tables, the dashboards and the invoice runs; the sign-in state.
workVars == <<clients, prestations, pendingPrestations, editingPrestation, pc, toast,
              invoices, run>>
authVars == <<profile, authProvider, adminPage>>

Idle == [op |-> "idle", id |-> NoPrestation, client |-> Null, tarif |-> NullNumber]

NoToast == [who |-> "nobody", msg |-> "none"]

PrestationIds == 1..Len(prestations)

IsPending(p) == p.statut_validation # "valide"

\* .eq('statut_validation', 'en_attente'), with the columns the handlers use.
PendingRows(table) ==
  [id \in {i \in 1..Len(table) : table[i].statut_validation = "en_attente"}
     |-> table[id].client_id]

NoRows == [id \in {} |-> Null]

\* The invoicing page and the generation it has asked for: todo holds the
\* groups (by client) still to be processed, generated_invoices the outcomes
\* gathered so far and, once the response has arrived, the page's
\* generatedInvoices.
NoGroups == [c \in {} |-> [ids |-> {}, total |-> 0]]

RunIdle == [stage |-> "idle", month |-> 0, year |-> 0, todo |-> NoGroups,
            generated_invoices |-> {}]

Runs == {"g1", "g2"}

\* The routes the redirection effect names.
loginPath == "/connexion"
inscriptionPath == "/inscription"
motDePasseOubliePath == "/mot-de-passe-oublie"
resetPasswordPath == "/reset-password"
waitingPath == "/en-attente-validation"
adminDashboardPath == "/admin-validation-prestations"
collaborateurDashboardPath == "/dashboard-collaborateur"
Paths == {loginPath, inscriptionPath, motDePasseOubliePath, resetPasswordPath,
          waitingPath, adminDashboardPath, collaborateurDashboardPath}

\* user === null of the AuthProvider, and an AppUser with its two fields.
NoUser == [role |-> Null, statut_validation |-> Null]
AppUser(role, statut) == [role |-> role, statut_validation |-> statut]

\* The profile row the store may hold for the signed-in user: none, or a role
\* (possibly empty) and a status (possibly empty, possibly a value the
\* application does not expect).
NoProfile == [exists |-> FALSE, role |-> Null, statut_validation |-> Null]
StoredProfiles ==
  {NoProfile} \cup
  [exists : {TRUE}, role : {"admin", "collaborateur", Null},
   statut_validation : {"valide", "en_attente", "refuse", "en_attente_validation", Null}]

\* useState(...) of the AuthProvider, at a location: loading, no session, no
\* user; fetching is the profile request of onAuthStateChange under way;
\* hash is "recovery" for #access_token=...&type=recovery.
AuthProviderAt(path, hash) ==
  [loading |-> TRUE, session |-> FALSE, user |-> NoUser, fetching |-> FALSE,
   pathname |-> path, hash |-> hash]

\* The dashboard before it is mounted, and its useState(...) values.
PageUnmounted == [stage |-> "unmounted", isLoading |-> TRUE, isAdmin |-> FALSE,
                  error |-> Null]

\* A row as the store holds it before an admin has acted on it.
NewRow(client, project, date, debut, fin, heures, statut) ==
  [client_id |-> client, project_id |-> project, date_prestation |-> date,
   heure_debut |-> debut, heure_fin |-> fin, heures_calculees |-> heures,
   adresse |-> "adr", statut_validation |-> statut,
   tarif_horaire_utilise |-> NullNumber, invoiced |-> FALSE]

\* Rows awaiting validation that the store holds when the pages are opened.
InitRowOf(c) ==
  NewRow(c, CHOOSE q \in ProjectIds : ProjectClient[q] = c, <<2025, 1, 15>>,
         T0900, T1700, collaborateurHeures(T0900, T1700), "en_attente")

InitTables ==
  {[i \in 1..n |-> InitRowOf(IF i % 2 = 1 THEN "cA" ELSE "cB")] : n \in 0..MaxPrestations}

Init ==
  /\ clients \in [ClientIds -> {1}]
  /\ prestations \in InitTables
  /\ pendingPrestations = [s \in Sessions |-> NoRows]
  /\ editingPrestation = [s \in Sessions |-> NoPrestation]
  /\ pc = [s \in Sessions |-> Idle]
  /\ toast = NoToast
  /\ invoices = <<>>
  /\ run = [r \in Runs |-> RunIdle]
  /\ profile = NoProfile
  /\ authProvider = AuthProviderAt(loginPath, "")
  /\ adminPage = PageUnmounted

\* --------------------------------------------- the admin dashboard's session

Notify(who, msg) == [who |-> who, msg |-> msg]

\* What a (re)fetch of the pending rows leaves in the list: the rows, or the
\* empty list when the query fails.
Refetched(table, fetchOk) == IF fetchOk THEN PendingRows(table) ELSE NoRows

\* The dashboard is opened (or reloaded) by an admin: the effect on isAdmin
\* fetches the pending rows; the modal starts closed.
fetchPendingPrestations(s, fetchOk) ==
  /\ pc[s].op = "idle"
  /\ pendingPrestations' = [pendingPrestations EXCEPT ![s] = Refetched(prestations, fetchOk)]
  /\ editingPrestation' = [editingPrestation EXCEPT ![s] = NoPrestation]
  /\ toast' = IF fetchOk THEN NoToast ELSE Notify(s, "erreur_recuperation")
  /\ UNCHANGED <<authVars, clients, prestations, pc, invoices, run>>

handleOpenModifyModal(s, id) ==
  /\ pc[s].op = "idle"
  /\ editingPrestation[s] = NoPrestation
  /\ id \in DOMAIN pendingPrestations[s]
  /\ editingPrestation' = [editingPrestation EXCEPT ![s] = id]
  /\ toast' = NoToast
  /\ UNCHANGED <<authVars, clients, prestations, pendingPrestations, pc, invoices, run>>

handleCloseModifyModal(s) ==
  /\ pc[s].op = "idle"
  /\ editingPrestation[s] # NoPrestation
  /\ editingPrestation' = [editingPrestation EXCEPT ![s] = NoPrestation]
  /\ toast' = NoToast
  /\ UNCHANGED <<authVars, clients, prestations, pendingPrestations, pc, invoices, run>>

\* handleValidate up to the rate, without the check that the rate is defined.
handleValidate_select_anyRate(s, id, storeOk) ==
  /\ pc[s].op = "idle"
  /\ editingPrestation[s] = NoPrestation
  /\ id \in DOMAIN pendingPrestations[s]
  /\ LET clientId == pendingPrestations[s][id]
         tarif == clients[clientId]
     IN IF ~storeOk
        THEN /\ toast' = Notify(s, "echec_validation_erreur_client")
             /\ pc' = pc
        ELSE /\ toast' = NoToast
             /\ pc' = [pc EXCEPT ![s] = [op |-> "validate", id |-> id,
                                         client |-> clientId, tarif |-> tarif]]
  /\ UNCHANGED <<authVars, clients, prestations, pendingPrestations, editingPrestation,
                 invoices, run>>

\* handleValidate up to its first await's result: the client's tarif_horaire is
\* read with the client_id of the listed row.
handleValidate_select(s, id, storeOk) ==
  /\ pc[s].op = "idle"
  /\ editingPrestation[s] = NoPrestation
  /\ id \in DOMAIN pendingPrestations[s]
  /\ LET clientId == pendingPrestations[s][id]
         tarif == clients[clientId]
     IN IF ~storeOk
        THEN /\ toast' = Notify(s, "echec_validation_erreur_client")
             /\ pc' = pc
        ELSE IF tarif = NullNumber
        THEN /\ toast' = Notify(s, "echec_validation_tarif_non_defini")
             /\ pc' = pc
        ELSE /\ toast' = NoToast
             /\ pc' = [pc EXCEPT ![s] = [op |-> "validate", id |-> id,
                                         client |-> clientId, tarif |-> tarif]]
  /\ UNCHANGED <<authVars, clients, prestations, pendingPrestations, editingPrestation,
                 invoices, run>>

\* The validating update as it would be if it wrote the status alone.
ValidatedRow_statusOnly(row, tarif) ==
  [row EXCEPT !.statut_validation = "valide"]

\* .update({statut_validation: 'valide', tarif_horaire_utilise}).eq('id', id)
ValidatedRow(row, tarif) ==
  [row EXCEPT !.statut_validation = "valide", !.tarif_horaire_utilise = tarif]

\* handleValidate from the update on: the row is written whatever its status,
\* and on success leaves this session's list.
handleValidate_update(s, storeOk) ==
  /\ pc[s].op = "validate"
  /\ LET id == pc[s].id
     IN IF storeOk
        THEN /\ prestations' = [prestations EXCEPT ![id] = ValidatedRow(@, pc[s].tarif)]
             /\ pendingPrestations' =
                  [pendingPrestations EXCEPT ![s] =
                     [i \in DOMAIN @ \ {id} |-> @[i]]]
             /\ toast' = Notify(s, "validee")
        ELSE /\ toast' = Notify(s, "echec_validation_erreur_update")
             /\ UNCHANGED <<prestations, pendingPrestations>>
  /\ pc' = [pc EXCEPT ![s] = Idle]
  /\ UNCHANGED <<authVars, clients, editingPrestation, invoices, run>>

\* cleanedUpdateData as it would be if a save sent the row back to the list of
\* rows awaiting validation.
AmendedRow_reopens(row, date, debut, fin, client, project) ==
  [row EXCEPT !.date_prestation = date, !.heure_debut = debut, !.heure_fin = fin,
              !.heures_calculees = heuresCalculeesFinal(debut, fin),
              !.client_id = client,
              !.project_id = IF project = Undefined THEN @ ELSE project,
              !.statut_validation = "en_attente"]

\* cleanedUpdateData as it would be if a save emptied tarif_horaire_utilise.
AmendedRow_clearsSnapshot(row, date, debut, fin, client, project) ==
  [row EXCEPT !.date_prestation = date, !.heure_debut = debut, !.heure_fin = fin,
              !.heures_calculees = heuresCalculeesFinal(debut, fin),
              !.client_id = client,
              !.project_id = IF project = Undefined THEN @ ELSE project,
              !.tarif_horaire_utilise = NullNumber]

\* cleanedUpdateData applied by .update(...).eq('id', id): the form's fields,
\* the recomputed hours; statut_validation and tarif_horaire_utilise are not
\* part of it.
AmendedRow(row, date, debut, fin, client, project) ==
  [row EXCEPT !.date_prestation = date, !.heure_debut = debut, !.heure_fin = fin,
              !.heures_calculees = heuresCalculeesFinal(debut, fin),
              !.client_id = client,
              !.project_id = IF project = Undefined THEN @ ELSE project]

\* handleSaveChanges: the whole handler, with the refetch that ends it.
handleSaveChanges(s, date, debut, fin, client, project, storeOk, fetchOk) ==
  /\ pc[s].op = "idle"
  /\ editingPrestation[s] # NoPrestation
  /\ LET id == editingPrestation[s]
     IN IF date = NoDate \/ client = Undefined \/ ~storeOk
        THEN /\ toast' = Notify(s, "erreur_sauvegarde")
             /\ UNCHANGED <<prestations, pendingPrestations, editingPrestation>>
        ELSE /\ prestations' =
                  [prestations EXCEPT ![id] = AmendedRow(@, date, debut, fin, client, project)]
             /\ toast' = Notify(s, "modifiee")
             /\ editingPrestation' = [editingPrestation EXCEPT ![s] = NoPrestation]
             /\ pendingPrestations' =
                  [pendingPrestations EXCEPT ![s] = Refetched(prestations', fetchOk)]
  /\ UNCHANGED <<authVars, clients, pc, invoices, run>>

\* handleSaveAndValidate, step 1: the save, up to the result of its update.
handleSaveAndValidate_save(s, date, debut, fin, client, project, storeOk, fetchOk) ==
  /\ pc[s].op = "idle"
  /\ editingPrestation[s] # NoPrestation
  /\ LET id == editingPrestation[s]
     IN IF date = NoDate \/ client = Undefined \/ ~storeOk
        THEN /\ toast' = Notify(s, "echec_sauvegarde_validation")
             /\ pendingPrestations' =
                  [pendingPrestations EXCEPT ![s] = Refetched(prestations, fetchOk)]
             /\ UNCHANGED <<prestations, pc>>
        ELSE /\ prestations' =
                  [prestations EXCEPT ![id] = AmendedRow(@, date, debut, fin, client, project)]
             /\ toast' = Notify(s, "modifications_enregistrees")
             /\ pc' = [pc EXCEPT ![s] = [op |-> "sv_select", id |-> id,
                                         client |-> client, tarif |-> NullNumber]]
             /\ UNCHANGED pendingPrestations
  /\ UNCHANGED <<authVars, clients, editingPrestation, invoices, run>>

\* Step 2 as it would be if it read the rate of editingPrestation.client_id,
\* the client the row had when the modal was opened.
handleSaveAndValidate_select_listedClient(s, storeOk, fetchOk) ==
  /\ pc[s].op = "sv_select"
  /\ LET listed == IF pc[s].id \in DOMAIN pendingPrestations[s]
                   THEN pendingPrestations[s][pc[s].id] ELSE pc[s].client
         tarif == clients[listed]
     IN IF ~storeOk \/ tarif = NullNumber
        THEN /\ toast' = Notify(s, IF ~storeOk THEN "echec_sv_erreur_client"
                                              ELSE "echec_sv_tarif_non_defini")
             /\ pendingPrestations' =
                  [pendingPrestations EXCEPT ![s] = Refetched(prestations, fetchOk)]
             /\ pc' = [pc EXCEPT ![s] = Idle]
        ELSE /\ pc' = [pc EXCEPT ![s] = [@ EXCEPT !.op = "sv_update", !.tarif = tarif]]
             /\ toast' = NoToast
             /\ UNCHANGED pendingPrestations
  /\ UNCHANGED <<authVars, clients, prestations, editingPrestation, invoices, run>>

\* Step 2: the rate of clientIdForValidation is read.
handleSaveAndValidate_select(s, storeOk, fetchOk) ==
  /\ pc[s].op = "sv_select"
  /\ LET tarif == clients[pc[s].client]
     IN IF ~storeOk \/ tarif = NullNumber
        THEN /\ toast' = Notify(s, IF ~storeOk THEN "echec_sv_erreur_client"
                                              ELSE "echec_sv_tarif_non_defini")
             /\ pendingPrestations' =
                  [pendingPrestations EXCEPT ![s] = Refetched(prestations, fetchOk)]
             /\ pc' = [pc EXCEPT ![s] = Idle]
        ELSE /\ pc' = [pc EXCEPT ![s] = [@ EXCEPT !.op = "sv_update", !.tarif = tarif]]
             /\ toast' = NoToast
             /\ UNCHANGED pendingPrestations
  /\ UNCHANGED <<authVars, clients, prestations, editingPrestation, invoices, run>>

\* Step 3 as a transaction would end it: a failed validating update undoes
\* the save, putting back the times the modal was opened with.
handleSaveAndValidate_update_rollback(s, storeOk, fetchOk) ==
  /\ pc[s].op = "sv_update"
  /\ LET id == pc[s].id
     IN IF storeOk
        THEN /\ prestations' = [prestations EXCEPT ![id] = ValidatedRow(@, pc[s].tarif)]
             /\ toast' = Notify(s, "modifiee_et_validee")
             /\ editingPrestation' = [editingPrestation EXCEPT ![s] = NoPrestation]
        ELSE /\ prestations' =
                  [prestations EXCEPT ![id] =
                     [@ EXCEPT !.heure_debut = T0900, !.heure_fin = T1700,
                               !.heures_calculees = collaborateurHeures(T0900, T1700)]]
             /\ toast' = Notify(s, "echec_sv_erreur_update")
             /\ UNCHANGED editingPrestation
  /\ pendingPrestations' =
       [pendingPrestations EXCEPT ![s] = Refetched(prestations', fetchOk)]
  /\ pc' = [pc EXCEPT ![s] = Idle]
  /\ UNCHANGED <<authVars, clients, invoices, run>>

\* Step 3: the validating update, then the modal closes and the list is
\* refetched; on failure only the refetch.
handleSaveAndValidate_update(s, storeOk, fetchOk) ==
  /\ pc[s].op = "sv_update"
  /\ LET id == pc[s].id
     IN IF storeOk
        THEN /\ prestations' = [prestations EXCEPT ![id] = ValidatedRow(@, pc[s].tarif)]
             /\ toast' = Notify(s, "modifiee_et_validee")
             /\ editingPrestation' = [editingPrestation EXCEPT ![s] = NoPrestation]
        ELSE /\ toast' = Notify(s, "echec_sv_erreur_update")
             /\ UNCHANGED <<prestations, editingPrestation>>
  /\ pendingPrestations' =
       [pendingPrestations EXCEPT ![s] = Refetched(prestations', fetchOk)]
  /\ pc' = [pc EXCEPT ![s] = Idle]
  /\ UNCHANGED <<authVars, clients, invoices, run>>

\* ------------------------------------------- collaborator and client pages

\* DashboardCollaborateur.onSubmit behind the schema: the row is inserted with
\* the computed hours and the status 'en_attente_validation'.
onSubmit(client, project, date, debut, fin, storeOk) ==
  /\ Len(prestations) < MaxPrestations
  /\ matchesHHMM(debut) /\ matchesHHMM(fin)
  /\ refineEndAfterStart(debut, fin)
  /\ IF storeOk
     THEN /\ prestations' =
               Append(prestations,
                      NewRow(client, project, date, debut, fin,
                             collaborateurHeures(debut, fin), "en_attente_validation"))
          /\ toast' = Notify("collaborateur", "enregistree")
     ELSE /\ toast' = Notify("collaborateur", "erreur_enregistrement")
          /\ UNCHANGED prestations
  /\ UNCHANGED <<authVars, clients, pendingPrestations, editingPrestation, pc, invoices, run>>

\* handleUpdateClient as it would be if the update cascaded to the rows already
\* validated for the client.
handleUpdateClient_cascading(c, tarif, storeOk) ==
  /\ storeOk
  /\ clients' = [clients EXCEPT ![c] = tarif]
  /\ prestations' =
       [i \in 1..Len(prestations) |->
          IF prestations[i].client_id = c /\ prestations[i].statut_validation = "valide"
          THEN [prestations[i] EXCEPT !.tarif_horaire_utilise = tarif]
          ELSE prestations[i]]
  /\ toast' = Notify("gestion_clients", "client_mis_a_jour")
  /\ UNCHANGED <<authVars, pendingPrestations, editingPrestation, pc, invoices, run>>

\* AdminGestionClients.handleUpdateClient: the client's row is updated, its
\* tarif_horaire to a number or to null.
handleUpdateClient(c, tarif, storeOk) ==
  /\ IF storeOk
     THEN /\ clients' = [clients EXCEPT ![c] = tarif]
          /\ toast' = Notify("gestion_clients", "client_mis_a_jour")
     ELSE /\ toast' = Notify("gestion_clients", "erreur_mise_a_jour")
          /\ UNCHANGED clients
  /\ UNCHANGED <<authVars, prestations, pendingPrestations, editingPrestation, pc, invoices, run>>

\* ProjectManagement.handleEditClientSubmit: the same update; an empty rate is
\* refused before the store is called.
handleEditClientSubmit(c, tarif, storeOk) ==
  /\ IF tarif = NullNumber
     THEN /\ toast' = Notify("project_management", "nom_et_tarif_obligatoires")
          /\ UNCHANGED clients
     ELSE IF storeOk
     THEN /\ clients' = [clients EXCEPT ![c] = tarif]
          /\ toast' = Notify("project_management", "client_mis_a_jour")
     ELSE /\ toast' = Notify("project_management", "erreur_mise_a_jour")
          /\ UNCHANGED clients
  /\ UNCHANGED <<authVars, prestations, pendingPrestations, editingPrestation, pc, invoices, run>>


\* ------------------------------------------------- monthly invoice generation

\* The months an admin may select on the invoicing page.
Periods == {<<1, 2025>>, <<2, 2025>>}

InPeriod(date, month, year) == date # NoDate /\ date[1] = year /\ date[2] = month

\* Step 1's selection as it would be without the month and the year.
Eligible_anyMonth(row, month, year) ==
  /\ row.statut_validation = "valide"
  /\ ~row.invoiced

\* Step 1 of the generation: validated, not yet invoiced, dated in the month.
Eligible(row, month, year) ==
  /\ row.statut_validation = "valide"
  /\ ~row.invoiced
  /\ InPeriod(row.date_prestation, month, year)

\* heures_calculees x tarif_horaire_utilise of one row (in 1/HourUnits of the
\* currency unit).
Amount(row) == row.heures_calculees * row.tarif_horaire_utilise

RECURSIVE SumAmounts(_, _)
SumAmounts(table, ids) ==
  IF ids = {} THEN 0
  ELSE LET id == CHOOSE i \in ids : TRUE
       IN Amount(table[id]) + SumAmounts(table, ids \ {id})

\* Steps 1 and 2: the eligible rows of the month, grouped by client, each
\* group with the total of its rows.
SelectGroups(table, month, year) ==
  LET eligible == {i \in 1..Len(table) : Eligible(table[i], month, year)}
      groupOf(c) == {i \in eligible : table[i].client_id = c}
  IN [c \in {table[i].client_id : i \in eligible}
        |-> [ids |-> groupOf(c), total |-> SumAmounts(table, groupOf(c))]]

\* Step 3's check as it would be if it looked for the year in the month column.
InvoiceExists_wrongColumn(table, c, month, year) ==
  \E i \in 1..Len(table) :
     /\ table[i].client_id = c
     /\ table[i].month = year

\* Step 3's check: an invoice of this client for this month and year exists.
InvoiceExists(table, c, month, year) ==
  \E i \in 1..Len(table) :
     /\ table[i].client_id = c
     /\ table[i].month = month
     /\ table[i].year = year

\* AdminInvoicing.handleGenerateInvoices up to the request, and the
\* generation's steps 1 and 2 answering it.
handleGenerateInvoices_request(g, month, year) ==
  /\ run[g].stage # "running"
  /\ run' = [run EXCEPT ![g] =
               [stage |-> "running", month |-> month, year |-> year,
                todo |-> SelectGroups(prestations, month, year),
                generated_invoices |-> {}]]
  /\ toast' = Notify(g, "lancement_generation")
  /\ UNCHANGED <<authVars, clients, prestations, pendingPrestations, editingPrestation, pc,
                 invoices>>

\* A group processed without step 3's check.
generate_client_unguarded(g, c, pdfOk) ==
  /\ run[g].stage = "running"
  /\ c \in DOMAIN run[g].todo
  /\ LET group == run[g].todo[c]
         rest == [d \in DOMAIN run[g].todo \ {c} |-> run[g].todo[d]]
         lien == IF pdfOk THEN "pdf" ELSE Null
     IN /\ invoices' = Append(invoices,
                 [client_id |-> c, month |-> run[g].month, year |-> run[g].year,
                  montant_total |-> group.total, prestation_ids |-> group.ids,
                  lien_pdf |-> lien])
        /\ prestations' =
             [i \in 1..Len(prestations) |->
                IF i \in group.ids THEN [prestations[i] EXCEPT !.invoiced = TRUE]
                ELSE prestations[i]]
        /\ run' = [run EXCEPT ![g].todo = rest,
                              ![g].generated_invoices =
                                 @ \cup {[client_id |-> c, montant_total |-> group.total,
                                          invoice_id |-> Len(invoices) + 1,
                                          lien_pdf |-> lien]}]
  /\ toast' = NoToast
  /\ UNCHANGED <<authVars, clients, pendingPrestations, editingPrestation, pc>>

\* Steps 3 to 5 as they would be if a failed PDF undid the client's
\* transaction and ended the batch.
generate_client_pdfAborts(g, c, pdfOk) ==
  /\ run[g].stage = "running"
  /\ c \in DOMAIN run[g].todo
  /\ LET group == run[g].todo[c]
         rest == [d \in DOMAIN run[g].todo \ {c} |-> run[g].todo[d]]
     IN IF InvoiceExists(invoices, c, run[g].month, run[g].year)
        THEN /\ run' = [run EXCEPT ![g].todo = rest]
             /\ UNCHANGED <<invoices, prestations>>
        ELSE IF ~pdfOk
        THEN /\ run' = [run EXCEPT ![g].todo = NoGroups]
             /\ UNCHANGED <<invoices, prestations>>
        ELSE /\ invoices' = Append(invoices,
                    [client_id |-> c, month |-> run[g].month, year |-> run[g].year,
                     montant_total |-> group.total, prestation_ids |-> group.ids,
                     lien_pdf |-> "pdf"])
             /\ prestations' =
                  [i \in 1..Len(prestations) |->
                     IF i \in group.ids THEN [prestations[i] EXCEPT !.invoiced = TRUE]
                     ELSE prestations[i]]
             /\ run' = [run EXCEPT ![g].todo = rest,
                                   ![g].generated_invoices =
                                      @ \cup {[client_id |-> c, montant_total |-> group.total,
                                               invoice_id |-> Len(invoices) + 1,
                                               lien_pdf |-> "pdf"]}]
  /\ toast' = NoToast
  /\ UNCHANGED <<authVars, clients, pendingPrestations, editingPrestation, pc>>

\* Steps 3 to 5 as they would be if a client that already has its invoice for
\* the month had the rows of its group marked invoiced all the same.
generate_client_rebills(g, c, pdfOk) ==
  /\ run[g].stage = "running"
  /\ c \in DOMAIN run[g].todo
  /\ LET group == run[g].todo[c]
         rest == [d \in DOMAIN run[g].todo \ {c} |-> run[g].todo[d]]
         lien == IF pdfOk THEN "pdf" ELSE Null
     IN IF InvoiceExists(invoices, c, run[g].month, run[g].year)
        THEN /\ run' = [run EXCEPT ![g].todo = rest]
             /\ prestations' =
                  [i \in 1..Len(prestations) |->
                     IF i \in group.ids THEN [prestations[i] EXCEPT !.invoiced = TRUE]
                     ELSE prestations[i]]
             /\ UNCHANGED invoices
        ELSE /\ invoices' = Append(invoices,
                    [client_id |-> c, month |-> run[g].month, year |-> run[g].year,
                     montant_total |-> group.total, prestation_ids |-> group.ids,
                     lien_pdf |-> lien])
             /\ prestations' =
                  [i \in 1..Len(prestations) |->
                     IF i \in group.ids THEN [prestations[i] EXCEPT !.invoiced = TRUE]
                     ELSE prestations[i]]
             /\ run' = [run EXCEPT ![g].todo = rest,
                                   ![g].generated_invoices =
                                      @ \cup {[client_id |-> c, montant_total |-> group.total,
                                               invoice_id |-> Len(invoices) + 1,
                                               lien_pdf |-> lien]}]
  /\ toast' = NoToast
  /\ UNCHANGED <<authVars, clients, pendingPrestations, editingPrestation, pc>>

\* Steps 3 to 5 for one client, under the guard of (client, month, year): the
\* group is skipped if the client has an invoice for the month; otherwise the
\* invoice is created and the group's rows are marked invoiced in one
\* transaction, and the PDF is rendered (its failure leaves lien_pdf null).
generate_client(g, c, pdfOk) ==
  /\ run[g].stage = "running"
  /\ c \in DOMAIN run[g].todo
  /\ LET group == run[g].todo[c]
         rest == [d \in DOMAIN run[g].todo \ {c} |-> run[g].todo[d]]
         lien == IF pdfOk THEN "pdf" ELSE Null
     IN IF InvoiceExists(invoices, c, run[g].month, run[g].year)
        THEN /\ run' = [run EXCEPT ![g].todo = rest]
             /\ UNCHANGED <<invoices, prestations>>
        ELSE /\ invoices' = Append(invoices,
                    [client_id |-> c, month |-> run[g].month, year |-> run[g].year,
                     montant_total |-> group.total, prestation_ids |-> group.ids,
                     lien_pdf |-> lien])
             /\ prestations' =
                  [i \in 1..Len(prestations) |->
                     IF i \in group.ids THEN [prestations[i] EXCEPT !.invoiced = TRUE]
                     ELSE prestations[i]]
             /\ run' = [run EXCEPT ![g].todo = rest,
                                   ![g].generated_invoices =
                                      @ \cup {[client_id |-> c, montant_total |-> group.total,
                                               invoice_id |-> Len(invoices) + 1,
                                               lien_pdf |-> lien]}]
  /\ toast' = NoToast
  /\ UNCHANGED <<authVars, clients, pendingPrestations, editingPrestation, pc>>

\* Step 6 and the rest of handleGenerateInvoices: the response carries the
\* outcomes, which the page stores in generatedInvoices.
handleGenerateInvoices_response(g) ==
  /\ run[g].stage = "running"
  /\ DOMAIN run[g].todo = {}
  /\ run' = [run EXCEPT ![g].stage = "done"]
  /\ toast' = IF run[g].generated_invoices # {}
              THEN Notify(g, "factures_generees")
              ELSE Notify(g, "aucune_nouvelle_facture")
  /\ UNCHANGED <<authVars, clients, prestations, pendingPrestations, editingPrestation, pc,
                 invoices>>

\* ------------------------------------- the AuthProvider and the role check

\* onAuthStateChange: the stored status is kept when it is one of the three
\* expected values, and replaced by 'inconnu' otherwise.
validStatuses == {"valide", "en_attente", "refuse"}

finalStatus(stored) == IF stored \in validStatuses THEN stored ELSE "inconnu"

fallbackUser == AppUser("collaborateur", "inconnu")

\* role: profileData.role || 'collaborateur'
userWithProfile(profileData) ==
  AppUser(IF profileData.role = Null THEN "collaborateur" ELSE profileData.role,
          finalStatus(profileData.statut_validation))

\* fetchInitialSession: getSession, then loading is set to false whatever the
\* result; without a session user (or on error) the user is null.
fetchInitialSession(hasSession, sessionOk) ==
  /\ authProvider.loading
  /\ authProvider' =
       [authProvider EXCEPT !.loading = FALSE,
                            !.session = sessionOk /\ hasSession,
                            !.user = IF sessionOk /\ hasSession THEN @ ELSE NoUser]
  /\ UNCHANGED <<workVars, profile, adminPage>>

\* onAuthStateChange up to the profile request: the session is set at once;
\* without a session user the user is set to null.
onAuthStateChange_session(hasSession) ==
  /\ ~authProvider.fetching
  /\ authProvider' =
       IF hasSession
       THEN [authProvider EXCEPT !.session = TRUE, !.fetching = TRUE]
       ELSE [authProvider EXCEPT !.session = FALSE, !.user = NoUser]
  /\ UNCHANGED <<workVars, profile, adminPage>>

\* onAuthStateChange from the answer of the profile request on: the profile
\* merged into the user, or the fallback user on an error or without a row.
onAuthStateChange_profile(fetchOk) ==
  /\ authProvider.fetching
  /\ authProvider' =
       [authProvider EXCEPT !.fetching = FALSE,
                            !.user = IF fetchOk /\ profile.exists
                                     THEN userWithProfile(profile)
                                     ELSE fallbackUser]
  /\ UNCHANGED <<workVars, profile, adminPage>>

\* What the redirection effect does in a state of the provider: "none", a
\* sign-out, or the path it navigates to.
Redirection(a) ==
  IF a.hash = "recovery" /\ a.pathname # resetPasswordPath THEN resetPasswordPath
  ELSE IF a.loading THEN "none"
  ELSE IF a.user # NoUser
  THEN IF /\ a.user.role # "admin"
          /\ a.user.statut_validation = "en_attente"
          /\ a.pathname # waitingPath
       THEN waitingPath
       ELSE IF a.user.statut_validation = "refuse" /\ a.pathname # loginPath
       THEN "signOut"
       ELSE IF /\ a.user.statut_validation = "valide"
               /\ a.pathname \in {loginPath, waitingPath, inscriptionPath}
       THEN IF a.user.role = "admin" THEN adminDashboardPath
            ELSE collaborateurDashboardPath
       ELSE "none"
  ELSE IF ~a.session
  THEN IF /\ a.pathname \notin {loginPath, inscriptionPath, motDePasseOubliePath,
                                resetPasswordPath}
          /\ a.pathname # waitingPath
       THEN loginPath
       ELSE "none"
  ELSE "none"

\* The redirection effect when it has something to do; signOut clears the
\* user and the session and navigates to the login page.
redirectionEffect ==
  /\ Redirection(authProvider) # "none"
  /\ authProvider' =
       IF authProvider.hash = "recovery" /\ authProvider.pathname # resetPasswordPath
       THEN [authProvider EXCEPT !.hash = "", !.pathname = resetPasswordPath]
       ELSE IF Redirection(authProvider) = "signOut"
       THEN [authProvider EXCEPT !.user = NoUser, !.session = FALSE,
                                 !.pathname = loginPath]
       ELSE [authProvider EXCEPT !.pathname = Redirection(authProvider)]
  /\ adminPage' = PageUnmounted
  /\ UNCHANGED <<workVars, profile>>

\* The provider's render gate: children are rendered once loading is over,
\* unless the user is not an admin, has status 'en_attente' or 'inconnu' and
\* is not on the waiting page.
RenderChildren(a) ==
  /\ ~a.loading
  /\ ~(/\ a.user # NoUser
       /\ a.user.role # "admin"
       /\ a.user.statut_validation \in {"en_attente", "inconnu"}
       /\ a.pathname # waitingPath)

\* The user follows a link or enters an address.
userNavigates(path) ==
  /\ path # authProvider.pathname
  /\ authProvider' = [authProvider EXCEPT !.pathname = path]
  /\ adminPage' = PageUnmounted
  /\ UNCHANGED <<workVars, profile>>

\* The validation dashboard is rendered among the provider's children and its
\* effect starts checkAuthAndRole: isLoading true, error null, isAdmin false.
DashboardAdminPrestations_mount ==
  /\ adminPage.stage = "unmounted"
  /\ RenderChildren(authProvider)
  /\ adminPage' = [stage |-> "session", isLoading |-> TRUE, isAdmin |-> FALSE,
                   error |-> Null]
  /\ UNCHANGED <<workVars, profile, authProvider>>

\* checkAuthAndRole at getUserSession(), a name the module neither imports
\* nor defines: the call throws a ReferenceError outside the try, which ends
\* the check with isLoading still true, or, where a definition is supplied
\* from elsewhere, returns the provider's session.
checkAuthAndRole_getUserSession(outcome) ==
  /\ adminPage.stage = "session"
  /\ outcome \in {"ReferenceError", "resolved"}
  /\ IF outcome = "ReferenceError"
     THEN /\ adminPage' = [adminPage EXCEPT !.stage = "aborted"]
          /\ UNCHANGED authProvider
     ELSE IF ~authProvider.session
     THEN /\ authProvider' = [authProvider EXCEPT !.pathname = loginPath]
          /\ adminPage' = PageUnmounted
     ELSE /\ adminPage' = [adminPage EXCEPT !.stage = "profile"]
          /\ UNCHANGED authProvider
  /\ UNCHANGED <<workVars, profile>>

\* utils/supabase getUserProfile: .select('id, statut_validation'): the row
\* it returns has these two columns and no other.
getUserProfile(stored) == [id |-> "user", statut_validation |-> stored.statut_validation]

\* row.role of a row as JavaScript reads it: undefined for a missing column.
roleOf(row) == IF "role" \in DOMAIN row THEN row.role ELSE Undefined

\* checkAuthAndRole from the answer of getUserProfile on.
checkAuthAndRole_getUserProfile(profileOk) ==
  /\ adminPage.stage = "profile"
  /\ adminPage' =
       IF ~profileOk
       THEN [adminPage EXCEPT !.stage = "done", !.isLoading = FALSE,
                              !.error = "erreur_verification_permissions"]
       ELSE IF profile.exists /\ roleOf(getUserProfile(profile)) = "admin"
       THEN [adminPage EXCEPT !.stage = "done", !.isLoading = FALSE, !.isAdmin = TRUE]
       ELSE IF ~profile.exists
       THEN [adminPage EXCEPT !.stage = "done", !.isLoading = FALSE,
                              !.error = "profil_introuvable"]
       ELSE [adminPage EXCEPT !.stage = "done", !.isLoading = FALSE]
  /\ UNCHANGED <<workVars, profile, authProvider>>

\* What the dashboard renders: skeleton, error, "Accès Refusé", or the page
\* content with the pending list and its Validate / Modify buttons.
PageView(page) ==
  IF page.stage = "unmounted" THEN "none"
  ELSE IF page.isLoading THEN "skeleton"
  ELSE IF page.error # Null THEN "erreur"
  ELSE IF ~page.isAdmin THEN "acces_refuse"
  ELSE "contenu"

\* ------------------------------------------------------------ specification

\* The answers of the store to a write or a single-row read, and to a fetch of
\* the pending rows, that the specifications below explore.
StoreOutcomes == {TRUE}
FetchOutcomes == {TRUE}

\* What an admin may leave in the modal's form when saving.
FormDates == {<<2025, 1, 15>>, NoDate}
FormTimes == {<<T0900, T1700>>, <<T1700, T0900>>}

SessionStep(s) ==
     \/ \E fok \in FetchOutcomes : fetchPendingPrestations(s, fok)
     \/ \E id \in PrestationIds : handleOpenModifyModal(s, id)
     \/ handleCloseModifyModal(s)
     \/ \E id \in PrestationIds, ok \in StoreOutcomes : handleValidate_select(s, id, ok)
     \/ \E ok \in StoreOutcomes : handleValidate_update(s, ok)
     \/ \E d \in FormDates, t \in FormTimes, c \in ClientIds \cup {Undefined},
           ok \in StoreOutcomes, fok \in FetchOutcomes :
          handleSaveChanges(s, d, t[1], t[2], c, Undefined, ok, fok)
     \/ \E d \in FormDates, t \in FormTimes, c \in ClientIds \cup {Undefined},
           ok \in StoreOutcomes, fok \in FetchOutcomes :
          handleSaveAndValidate_save(s, d, t[1], t[2], c, Undefined, ok, fok)
     \/ \E ok \in StoreOutcomes, fok \in FetchOutcomes : handleSaveAndValidate_select(s, ok, fok)
     \/ \E ok \in StoreOutcomes, fok \in FetchOutcomes : handleSaveAndValidate_update(s, ok, fok)

NextOthers ==
  \/ \E c \in ClientIds, ok \in StoreOutcomes :
       onSubmit(c, CHOOSE q \in ProjectIds : ProjectClient[q] = c,
                <<2025, 1, 15>>, T0900, T1700, ok)
  \/ \E c \in ClientIds, t \in Rates \cup {NullNumber}, ok \in StoreOutcomes :
       handleUpdateClient(c, t, ok)
  \/ \E c \in ClientIds, t \in Rates \cup {NullNumber}, ok \in StoreOutcomes :
       handleEditClientSubmit(c, t, ok)

NextSession == \E s \in Sessions : SessionStep(s)

Next == NextSession \/ NextOthers

Spec == Init /\ [][Next]_vars

\* One admin's dashboard next to the collaborators and the client pages.
SpecOneAdmin == Init /\ [][SessionStep("a1") \/ NextOthers]_vars

\* Validations only, each started from a list in which the row is still
\* pending in the store, next to changes of the clients' rates.
NextRace ==
  \/ \E s \in Sessions, fok \in FetchOutcomes : fetchPendingPrestations(s, fok)
  \/ \E s \in Sessions, id \in PrestationIds, ok \in StoreOutcomes :
       /\ IsPending(prestations[id])
       /\ handleValidate_select(s, id, ok)
  \/ \E s \in Sessions, ok \in StoreOutcomes : handleValidate_update(s, ok)
  \/ \E c \in ClientIds, t \in Rates, ok \in StoreOutcomes : handleUpdateClient(c, t, ok)

SpecRace == Init /\ [][NextRace]_vars


\* ---- invoicing, next to an admin whose dashboard was loaded earlier

PdfOutcomes == {TRUE}

\* The rates under which the rows below were validated.
InvoiceInitRates == [c \in ClientIds |-> IF c = "cA" THEN 1 ELSE MaxRate]

\* The rows the store may hold when invoicing starts: not invoiced, of either
\* client and either month, validated at their client's rate or still pending.
InvoiceRowKinds ==
  << <<"cA", <<2025, 1, 15>>, "valide">>, <<"cA", <<2025, 1, 15>>, "en_attente">>,
     <<"cA", <<2025, 2, 10>>, "valide">>, <<"cB", <<2025, 1, 15>>, "valide">> >>

InvoiceInitRow(kind) ==
  LET row == NewRow(kind[1], CHOOSE q \in ProjectIds : ProjectClient[q] = kind[1],
                    kind[2], T0900, T1700, collaborateurHeures(T0900, T1700),
                    "en_attente")
  IN IF kind[3] = "valide" THEN ValidatedRow(row, InvoiceInitRates[kind[1]]) ELSE row

\* The tables of n such rows, up to the order of the rows.
InvoiceInitTablesOf(n) ==
  {[i \in 1..n |-> InvoiceInitRow(InvoiceRowKinds[f[i]])] :
     f \in {h \in [1..n -> 1..Len(InvoiceRowKinds)] :
              \A i, j \in 1..n : i < j => h[i] <= h[j]}}

InvoiceInitTables == UNION {InvoiceInitTablesOf(n) : n \in 0..MaxValidated}

\* The dashboard of a1 was loaded while the rows were pending: its list still
\* shows them, although some have been validated from another session since.
InitInvoice ==
  /\ clients = InvoiceInitRates
  /\ prestations \in InvoiceInitTables
  /\ pendingPrestations =
       [s \in Sessions |->
          IF s = "a1" THEN [id \in 1..Len(prestations) |-> prestations[id].client_id]
          ELSE NoRows]
  /\ editingPrestation = [s \in Sessions |-> NoPrestation]
  /\ pc = [s \in Sessions |-> Idle]
  /\ toast = NoToast
  /\ invoices = <<>>
  /\ run = [r \in Runs |-> RunIdle]
  /\ profile = NoProfile
  /\ authProvider = AuthProviderAt(loginPath, "")
  /\ adminPage = PageUnmounted

NextGenerate ==
  \E g \in Runs :
     \/ \E period \in Periods : handleGenerateInvoices_request(g, period[1], period[2])
     \/ \E c \in ClientIds, ok \in PdfOutcomes : generate_client(g, c, ok)
     \/ handleGenerateInvoices_response(g)

NextDashboard ==
  \/ \E id \in PrestationIds : handleOpenModifyModal("a1", id)
  \/ \E d \in FormDates, t \in FormTimes, c \in ClientIds \cup {Undefined},
        ok \in StoreOutcomes, fok \in FetchOutcomes :
       handleSaveChanges("a1", d, t[1], t[2], c, Undefined, ok, fok)
  \/ \E id \in PrestationIds, ok \in StoreOutcomes : handleValidate_select("a1", id, ok)
  \/ \E ok \in StoreOutcomes : handleValidate_update("a1", ok)

NextInvoice == NextGenerate \/ NextDashboard

\* Invoicing next to validations only.
NextValidate ==
  \/ \E id \in PrestationIds, ok \in StoreOutcomes : handleValidate_select("a1", id, ok)
  \/ \E ok \in StoreOutcomes : handleValidate_update("a1", ok)

SpecGenerate == InitInvoice /\ [][NextGenerate \/ NextValidate]_vars

SpecInvoice == InitInvoice /\ [][NextInvoice]_vars


\* ---- the forms: the collaborator's form and one admin's modify modal, with
\* the times, clients and projects the forms let through

\* Clock texts typed into the forms: same-day spans (one of them not a whole
\* number of hundredths of an hour), overnight spans and zero-length spans.
FormClockTimes == {T0900, T0910, T1700, T2200, T0200}

NextForms ==
  \/ \E c \in ClientIds, q \in ProjectIds, debut \in FormClockTimes,
        fin \in FormClockTimes, ok \in StoreOutcomes :
       onSubmit(c, q, <<2025, 1, 15>>, debut, fin, ok)
  \/ \E fok \in FetchOutcomes : fetchPendingPrestations("a1", fok)
  \/ \E id \in PrestationIds : handleOpenModifyModal("a1", id)
  \/ \E debut \in FormClockTimes, fin \in FormClockTimes, c \in ClientIds,
        ok \in StoreOutcomes, fok \in FetchOutcomes :
       \E q \in {r \in ProjectIds : ProjectClient[r] = c} \cup {Undefined} :
          handleSaveChanges("a1", <<2025, 1, 15>>, debut, fin, c, q, ok, fok)

SpecForms == Init /\ [][NextForms]_vars

\* ---- save-and-validate with a store that may fail, next to another admin
\* who validates and to changes of the clients' rates

NextAmendValidate ==
  \/ \E s \in Sessions, fok \in FetchOutcomes : fetchPendingPrestations(s, fok)
  \/ \E id \in PrestationIds : handleOpenModifyModal("a1", id)
  \/ \E d \in FormDates, t \in FormTimes, c \in ClientIds \cup {Undefined},
        ok \in BOOLEAN, fok \in FetchOutcomes :
       handleSaveAndValidate_save("a1", d, t[1], t[2], c, Undefined, ok, fok)
  \/ \E ok \in BOOLEAN, fok \in FetchOutcomes : handleSaveAndValidate_select("a1", ok, fok)
  \/ \E ok \in BOOLEAN, fok \in FetchOutcomes : handleSaveAndValidate_update("a1", ok, fok)
  \/ \E id \in PrestationIds, ok \in StoreOutcomes : handleValidate_select("a2", id, ok)
  \/ \E ok \in StoreOutcomes : handleValidate_update("a2", ok)
  \/ \E c \in ClientIds, t \in {1, NullNumber}, ok \in StoreOutcomes :
       handleUpdateClient(c, t, ok)

SpecAmendValidate == Init /\ [][NextAmendValidate]_vars

\* ---- invoicing with a PDF renderer and an artifact store that may fail

NextPdf ==
  \E g \in Runs :
     \/ \E period \in Periods : handleGenerateInvoices_request(g, period[1], period[2])
     \/ \E c \in ClientIds, ok \in BOOLEAN : generate_client(g, c, ok)
     \/ handleGenerateInvoices_response(g)

SpecPdf == InitInvoice /\ [][NextPdf]_vars

\* ---- the whole life of a row: created, saved, validated alone or after a
\* save, next to changes of the rates and to one invoice generation

NextLifecycle ==
  \/ \E c \in ClientIds, ok \in StoreOutcomes :
       onSubmit(c, CHOOSE q \in ProjectIds : ProjectClient[q] = c,
                <<2025, 1, 15>>, T0900, T1700, ok)
  \/ \E s \in Sessions, fok \in FetchOutcomes : fetchPendingPrestations(s, fok)
  \/ \E id \in PrestationIds : handleOpenModifyModal("a1", id)
  \/ \E t \in FormTimes, c \in ClientIds, ok \in StoreOutcomes, fok \in FetchOutcomes :
       handleSaveChanges("a1", <<2025, 1, 15>>, t[1], t[2], c, Undefined, ok, fok)
  \/ \E t \in FormTimes, c \in ClientIds, ok \in StoreOutcomes, fok \in FetchOutcomes :
       handleSaveAndValidate_save("a1", <<2025, 1, 15>>, t[1], t[2], c, Undefined, ok, fok)
  \/ \E ok \in StoreOutcomes, fok \in FetchOutcomes : handleSaveAndValidate_select("a1", ok, fok)
  \/ \E ok \in StoreOutcomes, fok \in FetchOutcomes : handleSaveAndValidate_update("a1", ok, fok)
  \/ \E id \in PrestationIds, ok \in StoreOutcomes : handleValidate_select("a2", id, ok)
  \/ \E ok \in StoreOutcomes : handleValidate_update("a2", ok)
  \/ \E t \in {1, NullNumber}, ok \in StoreOutcomes : handleUpdateClient("cA", t, ok)
  \/ handleGenerateInvoices_request("g1", 1, 2025)
  \/ \E c \in ClientIds, ok \in PdfOutcomes : generate_client("g1", c, ok)
  \/ handleGenerateInvoices_response("g1")

SpecLifecycle == Init /\ [][NextLifecycle]_vars

\* ---- the forms with a time input left empty

TimeInputs == {T0900, T1700, T2200, TEmpty}

NextTimeInput ==
  \/ \E c \in ClientIds, debut \in TimeInputs, fin \in TimeInputs, ok \in StoreOutcomes :
       onSubmit(c, CHOOSE q \in ProjectIds : ProjectClient[q] = c,
                <<2025, 1, 15>>, debut, fin, ok)
  \/ \E fok \in FetchOutcomes : fetchPendingPrestations("a1", fok)
  \/ \E id \in PrestationIds : handleOpenModifyModal("a1", id)
  \/ handleCloseModifyModal("a1")
  \/ \E debut \in TimeInputs, fin \in TimeInputs, c \in ClientIds,
        ok \in StoreOutcomes, fok \in FetchOutcomes :
       handleSaveChanges("a1", <<2025, 1, 15>>, debut, fin, c, Undefined, ok, fok)

SpecTimeInput == Init /\ [][NextTimeInput]_vars

\* ---- signing in: the provider, its redirections and the role check of
\* the validation dashboard, for every profile the store may hold

InitAuth ==
  /\ clients \in [ClientIds -> {1}]
  /\ prestations = <<>>
  /\ pendingPrestations = [s \in Sessions |-> NoRows]
  /\ editingPrestation = [s \in Sessions |-> NoPrestation]
  /\ pc = [s \in Sessions |-> Idle]
  /\ toast = NoToast
  /\ invoices = <<>>
  /\ run = [r \in Runs |-> RunIdle]
  /\ profile \in StoredProfiles
  /\ authProvider \in {AuthProviderAt(path, hash) : path \in Paths, hash \in {"", "recovery"}}
  /\ adminPage = PageUnmounted

NextAuth ==
  \/ \E hasSession \in BOOLEAN, ok \in BOOLEAN : fetchInitialSession(hasSession, ok)
  \/ \E hasSession \in BOOLEAN : onAuthStateChange_session(hasSession)
  \/ \E ok \in BOOLEAN : onAuthStateChange_profile(ok)
  \/ redirectionEffect
  \/ \E path \in Paths : userNavigates(path)
  \/ DashboardAdminPrestations_mount
  \/ \E outcome \in {"ReferenceError", "resolved"} : checkAuthAndRole_getUserSession(outcome)
  \/ \E ok \in BOOLEAN : checkAuthAndRole_getUserProfile(ok)

SpecAuth == InitAuth /\ [][NextAuth]_vars

\* -------------------------------------------------------------- properties

Row(id) == prestations[id]

\* The notifications with which handleValidate and handleSaveAndValidate
\* report that the row was validated, and those with which a save reports
\* that the row was amended.
ValidatedMsgs == {"validee", "modifiee_et_validee"}
AmendedMsgs == {"modifiee", "modifications_enregistrees"}

\* Session s is at the validating update of handleValidate and this step
\* performs it.
ValidateCompletes(s) == pc[s].op = "validate" /\ pc'[s].op = "idle"

\* C1: once a row is validated, a later Validate of it (from any session, also
\* from a stale list) is refused (no success is reported) and leaves the row
\* as it was, so tarif_horaire_utilise keeps the first call's value.
C1_SecondValidateRefused ==
  [][\A s \in Sessions :
       (ValidateCompletes(s) /\ Row(pc[s].id).statut_validation = "valide")
         => /\ toast'.msg \notin ValidatedMsgs
            /\ prestations'[pc[s].id] = Row(pc[s].id)]_vars

\* C2: tarif_horaire_utilise is write-once: from the state in which it is
\* not null, no step changes it.
C2_SnapshotWriteOnce ==
  [][\A id \in PrestationIds :
       Row(id).tarif_horaire_utilise # NullNumber
         => prestations'[id].tarif_horaire_utilise = Row(id).tarif_horaire_utilise]_vars

\* C3: a step that changes a client's tarif_horaire changes no row of the
\* prestations table, so every validated row keeps its tarif_horaire_utilise.
C3_RateChangeIsolation ==
  [][clients' # clients => prestations' = prestations]_vars

\* C3's case: a row validated at one rate whose client has since been given
\* another rate, the update being the step just taken.
C3_Witness ==
  /\ toast.msg = "client_mis_a_jour"
  /\ \E id \in PrestationIds :
       /\ Row(id).statut_validation = "valide"
       /\ Row(id).tarif_horaire_utilise = 1
       /\ clients[Row(id).client_id] = 2

\* C4: Validate is an atomic check-then-set: a validation reports success only
\* for a row that was still pending when its update was applied, so of two
\* validations racing on a pending row at most one wins.
C4_AtMostOneValidationWins ==
  [][\A s \in Sessions :
       (pc[s].op \in {"validate", "sv_update"} /\ toast' = Notify(s, toast'.msg)
          /\ toast'.msg \in ValidatedMsgs)
         => IsPending(Row(pc[s].id))]_vars

\* Session s has the modal open and this step is a save of its form (by
\* handleSaveChanges or by step 1 of handleSaveAndValidate).
SaveStep(s) ==
  /\ pc[s].op = "idle" /\ editingPrestation[s] # NoPrestation
  /\ toast'.who = s
  /\ toast'.msg \in AmendedMsgs \cup {"erreur_sauvegarde", "echec_sauvegarde_validation"}

\* C5: an Amend of a row that is already validated is refused and changes
\* none of its fields.
C5_AmendOnlyWhilePending ==
  [][\A s \in Sessions :
       (SaveStep(s) /\ ~IsPending(Row(editingPrestation[s])))
         => /\ toast'.msg \notin AmendedMsgs
            /\ prestations'[editingPrestation[s]] = Row(editingPrestation[s])]_vars

\* C6: the invoices table never holds two invoices of the same client for the
\* same month and year, however the generations interleave.
C6_OneInvoicePerClientPeriod ==
  \A i, j \in 1..Len(invoices) :
     (/\ invoices[i].client_id = invoices[j].client_id
      /\ invoices[i].month = invoices[j].month
      /\ invoices[i].year = invoices[j].year) => i = j

\* C6's case: two generations of the same month run together; one has created
\* the client's invoice while the other still holds the client's group.
C6_Witness ==
  \E g, h \in Runs, c \in ClientIds :
     /\ g # h
     /\ run[g].stage = "running" /\ c \in DOMAIN run[g].todo
     /\ run[h].month = run[g].month /\ run[h].year = run[g].year
     /\ \E o \in run[h].generated_invoices : o.client_id = c
     /\ InvoiceExists(invoices, c, run[g].month, run[g].year)

\* C7: of two generations of the same month and year, the second returns no
\* invoice for a client the first one invoiced: no client appears in the
\* outcomes of both, and every outcome names an invoice of its client and month.
C7_RerunReturnsNothingNew ==
  /\ \A g, h \in Runs :
        (g # h /\ run[g].stage # "idle" /\ run[h].stage # "idle"
           /\ run[g].month = run[h].month /\ run[g].year = run[h].year)
          => \A o \in run[g].generated_invoices, q \in run[h].generated_invoices :
                o.client_id # q.client_id
  /\ \A g \in Runs : \A o \in run[g].generated_invoices :
        /\ o.invoice_id \in 1..Len(invoices)
        /\ invoices[o.invoice_id].client_id = o.client_id
        /\ invoices[o.invoice_id].month = run[g].month
        /\ invoices[o.invoice_id].year = run[g].year

\* C7's case: both generations of the month have answered, the first with the
\* client's invoice, the second with nothing, although a validated row of the
\* client in that month was still not invoiced.
C7_Witness ==
  \E g, h \in Runs, c \in ClientIds :
     /\ g # h
     /\ run[g].stage = "done" /\ run[h].stage = "done"
     /\ run[h].month = run[g].month /\ run[h].year = run[g].year
     /\ \E o \in run[g].generated_invoices : o.client_id = c
     /\ run[h].generated_invoices = {}
     /\ toast = Notify(h, "aucune_nouvelle_facture")
     /\ \E id \in PrestationIds :
          /\ Row(id).client_id = c
          /\ Eligible(Row(id), run[h].month, run[h].year)

\* C8: no row is counted in more than one invoice.
C8_NoEntryInTwoInvoices ==
  \A i, j \in 1..Len(invoices) :
     i # j => invoices[i].prestation_ids \cap invoices[j].prestation_ids = {}

\* C9: a row is invoiced exactly if an invoice of the row's client, for the
\* month of the row's date, includes it.
C9_InvoicedIffIncluded ==
  \A id \in PrestationIds :
     Row(id).invoiced <=>
       \E i \in 1..Len(invoices) :
          /\ id \in invoices[i].prestation_ids
          /\ invoices[i].client_id = Row(id).client_id
          /\ InPeriod(Row(id).date_prestation, invoices[i].month, invoices[i].year)

\* C10: an invoice, when it is created, has for total the sum of
\* heures_calculees x tarif_horaire_utilise over the rows it includes, each of
\* them validated, not yet invoiced, of the invoice's client and dated in the
\* invoice's month.
C10_TotalIsSumOverEligible ==
  [][Len(invoices') = Len(invoices) + 1 =>
       LET inv == invoices'[Len(invoices')]
       IN /\ \A id \in inv.prestation_ids :
               /\ Row(id).client_id = inv.client_id
               /\ Eligible(Row(id), inv.month, inv.year)
          /\ inv.montant_total = SumAmounts(prestations, inv.prestation_ids)]_vars

\* The DurationCalculator's result for a span of so many minutes: hours in
\* HourUnits, rounded to the nearest hundredth of an hour.
HundredthsOfHour(minutes) == (minutes * 10 + 3) \div 6

RoundedHours(minutes) == HundredthsOfHour(minutes) * (HourUnits \div 100)

\* C11: a stored row whose heure_fin is before its heure_debut (both valid
\* HH:MM) has for hours (1440 - start + end) / 60, the end being the next day,
\* whether the row was created or amended.
C11_OvernightSpan ==
  \A id \in PrestationIds :
     (/\ matchesHHMM(Row(id).heure_debut) /\ matchesHHMM(Row(id).heure_fin)
      /\ minutesOfDay(Row(id).heure_fin) < minutesOfDay(Row(id).heure_debut))
       => Row(id).heures_calculees =
            RoundedHours(1440 - minutesOfDay(Row(id).heure_debut)
                              + minutesOfDay(Row(id).heure_fin))

\* C12: a stored row whose heure_debut is before its heure_fin (both valid
\* HH:MM) has for hours (end - start) / 60, rounded to 2 decimals.
C12_SameDaySpan ==
  \A id \in PrestationIds :
     (/\ matchesHHMM(Row(id).heure_debut) /\ matchesHHMM(Row(id).heure_fin)
      /\ minutesOfDay(Row(id).heure_debut) < minutesOfDay(Row(id).heure_fin))
       => Row(id).heures_calculees =
            RoundedHours(minutesOfDay(Row(id).heure_fin) - minutesOfDay(Row(id).heure_debut))

\* C13: a zero-length span is rejected: no row with heure_debut equal to
\* heure_fin is ever stored by Create.
C13_ZeroLengthRejected ==
  \A id \in PrestationIds :
     Row(id).statut_validation = "en_attente_validation"
       => Row(id).heure_debut # Row(id).heure_fin

\* The DurationCalculator's result for two valid clock texts that differ: the
\* end is the following day when it is not after the start.
DurationCalculator(debut, fin) ==
  LET start == minutesOfDay(debut)
      end == minutesOfDay(fin)
  IN RoundedHours(IF end <= start THEN 1440 - start + end ELSE end - start)

\* C14: every stored row's heures_calculees is the DurationCalculator's result
\* for the heure_debut and heure_fin stored with it.
C14_HoursFollowStoredTimes ==
  \A id \in PrestationIds :
     (/\ matchesHHMM(Row(id).heure_debut) /\ matchesHHMM(Row(id).heure_fin)
      /\ Row(id).heure_debut # Row(id).heure_fin)
       => Row(id).heures_calculees =
            DurationCalculator(Row(id).heure_debut, Row(id).heure_fin)

\* C15: every stored row's project belongs to the row's client.
C15_ProjectBelongsToClient ==
  \A id \in PrestationIds : ProjectClient[Row(id).project_id] = Row(id).client_id

\* C16: the admin's pending list, as its query selects it from the store,
\* holds exactly the rows that are not validated: every row stored by Create
\* is in it until it is validated, and no validated row is.
C16_PendingListExact ==
  DOMAIN PendingRows(prestations) =
    {id \in PrestationIds : Row(id).statut_validation # "valide"}

\* A validation stopped because the client read has no tarif_horaire.
NoRateMsgs == {"echec_validation_tarif_non_defini", "echec_sv_tarif_non_defini"}

SvValidateFailures ==
  {"echec_sv_erreur_client", "echec_sv_tarif_non_defini", "echec_sv_erreur_update"}

\* What handleSaveChanges and handleSaveAndValidate write when they save.
AmendedFields(row) ==
  <<row.date_prestation, row.heure_debut, row.heure_fin, row.heures_calculees,
    row.client_id, row.project_id>>

\* C18: save-and-validate is a save followed by a validation, with no
\* rollback: the save writes the form's client into the row; from the save to
\* the end of the handler no step changes the saved fields of the row; and the
\* step that reports a failure of the validation (no rate, store error on the
\* read or on the update) changes no row at all, so statut_validation and
\* tarif_horaire_utilise stay as the last writer left them.
C18_NoRollback ==
  [][\A s \in Sessions :
       /\ (pc[s].op = "idle" /\ pc'[s].op = "sv_select")
            => prestations'[pc'[s].id].client_id = pc'[s].client
       /\ pc[s].op \in {"sv_select", "sv_update"}
            => AmendedFields(prestations'[pc[s].id]) = AmendedFields(Row(pc[s].id))
       /\ (toast'.who = s /\ toast'.msg \in SvValidateFailures)
            => /\ prestations' = prestations
               /\ pc[s].op \in {"sv_select", "sv_update"}
               /\ pc'[s] = Idle]_vars

\* C18's case: the validating update has just failed after a save that moved
\* the row to 17:00-09:00; the row holds the saved times and still awaits
\* validation.
C18_Witness ==
  /\ toast = Notify("a1", "echec_sv_erreur_update")
  /\ editingPrestation["a1"] # NoPrestation
  /\ LET row == Row(editingPrestation["a1"])
     IN /\ row.heure_debut = T1700
        /\ row.heure_fin = T0900
        /\ IsPending(row)
        /\ row.tarif_horaire_utilise = NullNumber

\* C19: a failure of the PDF step for one client neither undoes nor ends the
\* batch. The step in which a generation handles a client that has no invoice
\* yet for the month appends the invoice, marks the group's rows invoiced and
\* adds the client's outcome with the invoice's lien_pdf (null when the PDF
\* failed), and leaves the other clients of the batch to be processed; every
\* outcome keeps naming a stored invoice with the same lien_pdf whose rows are
\* invoiced.
C19_PdfFailureKept ==
  [][/\ \A g \in Runs, c \in ClientIds :
          (/\ run[g].stage = "running" /\ run'[g].stage = "running"
           /\ c \in DOMAIN run[g].todo /\ c \notin DOMAIN run'[g].todo
           /\ ~InvoiceExists(invoices, c, run[g].month, run[g].year))
            => /\ Len(invoices') = Len(invoices) + 1
               /\ invoices'[Len(invoices')].client_id = c
               /\ invoices'[Len(invoices')].prestation_ids = run[g].todo[c].ids
               /\ \A i \in run[g].todo[c].ids : prestations'[i].invoiced
               /\ \E o \in run'[g].generated_invoices :
                     /\ o.client_id = c
                     /\ o.invoice_id = Len(invoices')
                     /\ o.lien_pdf = invoices'[Len(invoices')].lien_pdf
               /\ DOMAIN run'[g].todo = DOMAIN run[g].todo \ {c}
     /\ \A g \in Runs : \A o \in run'[g].generated_invoices :
          /\ o.invoice_id \in 1..Len(invoices')
          /\ o.lien_pdf = invoices'[o.invoice_id].lien_pdf
          /\ \A i \in invoices'[o.invoice_id].prestation_ids :
               prestations'[i].invoiced]_vars

\* C19's case: a finished generation whose first client's PDF failed: that
\* client's outcome and invoice have a null lien_pdf, its rows are invoiced,
\* and a client processed afterwards has its invoice too.
C19_Witness ==
  \E g \in Runs :
     /\ run[g].stage = "done"
     /\ \E o, q \in run[g].generated_invoices :
          /\ o.lien_pdf = Null
          /\ invoices[o.invoice_id].lien_pdf = Null
          /\ invoices[o.invoice_id].prestation_ids # {}
          /\ \A i \in invoices[o.invoice_id].prestation_ids : Row(i).invoiced
          /\ q.client_id # o.client_id
          /\ q.invoice_id > o.invoice_id

\* No row of the store is validated, not invoiced and dated in the month.
NoEligibleRow(month, year) ==
  \A id \in PrestationIds :
     ~(/\ Row(id).statut_validation = "valide"
       /\ ~Row(id).invoiced
       /\ Row(id).date_prestation # NoDate
       /\ Row(id).date_prestation[1] = year
       /\ Row(id).date_prestation[2] = month)

\* C20: a generation requested for a month with no validated, uninvoiced row
\* selects nothing and writes nothing; a generation with nothing selected and
\* nothing created can only answer, and it answers with an empty list, leaving
\* the invoices and every row as they were.
C20_EmptyPeriodNoEffect ==
  [][\A g \in Runs :
       /\ (run[g].stage # "running" /\ run'[g].stage = "running"
             /\ NoEligibleRow(run'[g].month, run'[g].year))
            => /\ DOMAIN run'[g].todo = {}
               /\ run'[g].generated_invoices = {}
               /\ invoices' = invoices
               /\ prestations' = prestations
       /\ (run[g].stage = "running" /\ run'[g] # run[g]
             /\ DOMAIN run[g].todo = {} /\ run[g].generated_invoices = {})
            => /\ run'[g].stage = "done"
               /\ run'[g].generated_invoices = {}
               /\ toast' = Notify(g, "aucune_nouvelle_facture")
               /\ invoices' = invoices
               /\ prestations' = prestations]_vars

\* C20's case: a generation for a month with no eligible row has answered
\* with an empty list while the store holds an eligible row of another month
\* and no invoice.
C20_Witness ==
  \E g \in Runs :
     /\ run[g].stage = "done"
     /\ toast = Notify(g, "aucune_nouvelle_facture")
     /\ run[g].generated_invoices = {}
     /\ NoEligibleRow(run[g].month, run[g].year)
     /\ invoices = <<>>
     /\ \E period \in Periods : ~NoEligibleRow(period[1], period[2])

\* C21: a validated row stays validated: no step takes statut_validation from
\* 'valide' to anything else, whether it creates, saves, validates, saves and
\* validates, changes a rate or generates invoices.
C21_ValidatedIsTerminal ==
  [][\A id \in PrestationIds :
       Row(id).statut_validation = "valide"
         => prestations'[id].statut_validation = "valide"]_vars

\* C21's case: a save has just been applied from a list loaded earlier while
\* every row of the store is validated: the saved row was validated before the
\* save and still is.
C21_Witness ==
  /\ toast = Notify("a1", "modifiee")
  /\ PrestationIds # {}
  /\ \A id \in PrestationIds : Row(id).statut_validation = "valide"
  /\ \E id \in PrestationIds : Row(id).heure_debut = T1700

\* C22: a creation or a save with a time that is not HH:MM stores nothing, so
\* heure_debut and heure_fin of every stored row match HH:MM.
C22_StoredTimesWellFormed ==
  \A id \in PrestationIds :
     matchesHHMM(Row(id).heure_debut) /\ matchesHHMM(Row(id).heure_fin)

\* C23: the step in which a generation handles a client that already has an
\* invoice for the month and the year creates no invoice, changes no row (no
\* invoiced flag, whenever the row was validated) and adds no outcome.
C23_InvoicedClientSkipped ==
  [][\A g \in Runs, c \in ClientIds :
       (/\ run[g].stage = "running"
        /\ c \in DOMAIN run[g].todo /\ c \notin DOMAIN run'[g].todo
        /\ InvoiceExists(invoices, c, run[g].month, run[g].year))
         => /\ invoices' = invoices
            /\ prestations' = prestations
            /\ run'[g].generated_invoices = run[g].generated_invoices]_vars

\* C23's case: a generation has worked through its groups and created
\* nothing, the other generation is not running and no validation is under
\* way; a client with an invoice for the month has a row of that month
\* that is validated, not invoiced and in no invoice.
C23_Witness ==
  \E g \in Runs, c \in ClientIds :
     /\ toast = NoToast
     /\ \A s \in Sessions : pc[s] = Idle
     /\ run[g].stage = "running"
     /\ \A h \in Runs \ {g} : run[h].stage = "done"
     /\ DOMAIN run[g].todo = {} /\ run[g].generated_invoices = {}
     /\ InvoiceExists(invoices, c, run[g].month, run[g].year)
     /\ \E id \in PrestationIds :
          /\ Row(id).client_id = c
          /\ Row(id).statut_validation = "valide" /\ ~Row(id).invoiced
          /\ InPeriod(Row(id).date_prestation, run[g].month, run[g].year)
          /\ \A i \in 1..Len(invoices) : id \notin invoices[i].prestation_ids

\* C24: the step that makes a row validated stores in tarif_horaire_utilise
\* the tarif_horaire its client has at that step, also when the rate was
\* changed after the validation read it.
C24_SnapshotIsRateAtValidation ==
  [][\A id \in PrestationIds :
       (Row(id).statut_validation # "valide"
          /\ prestations'[id].statut_validation = "valide")
         => prestations'[id].tarif_horaire_utilise
              = clients[prestations'[id].client_id]]_vars

\* C25: a save changes neither statut_validation nor tarif_horaire_utilise:
\* in the step that reports a save (from "Enregistrer" or as the first half of
\* "Enregistrer et valider"), both fields of every row are what they were.
C25_AmendKeepsStatusAndSnapshot ==
  [][toast'.msg \in AmendedMsgs
       => \A id \in PrestationIds :
            /\ prestations'[id].statut_validation = Row(id).statut_validation
            /\ prestations'[id].tarif_horaire_utilise = Row(id).tarif_horaire_utilise]_vars

\* C25's case: a save has just moved a validated row from client cA to client
\* cB; the row still carries the tarif_horaire_utilise of its validation.
C25_Witness ==
  /\ toast = Notify("a1", "modifiee")
  /\ \E id \in PrestationIds :
       /\ Row(id).client_id = "cB" /\ Row(id).project_id = "pA"
       /\ Row(id).statut_validation = "valide"
       /\ Row(id).tarif_horaire_utilise = 1
       /\ \A other \in PrestationIds \ {id} : Row(other).project_id # "pA"

\* C26: in every state a row has no tarif_horaire_utilise exactly when it is
\* awaiting validation; every validated row carries a rate.
C26_SnapshotNullIffPending ==
  \A id \in PrestationIds :
     (Row(id).tarif_horaire_utilise = NullNumber) <=> IsPending(Row(id))

\* C26's case: "Enregistrer et valider" has just validated a row, which
\* carries the rate read for it.
C26_Witness ==
  /\ toast = Notify("a1", "modifiee_et_validee")
  /\ \E id \in PrestationIds :
       /\ Row(id).statut_validation = "valide"
       /\ Row(id).tarif_horaire_utilise = 1

\* C27: a save whose times give no positive duration is refused, so every
\* stored row has heures_calculees > 0.
C27_StoredHoursPositive ==
  \A id \in PrestationIds : Row(id).heures_calculees > 0

\* C28: "Enregistrer et valider" validates with the rate of the client its
\* save gave the row: the save stores the form's client in the row, the rate
\* then read is the tarif_horaire that client has at the read, and the
\* validating update stores the rate read.
C28_RateOfAmendedClient ==
  [][\A s \in Sessions :
       /\ (pc[s].op = "idle" /\ pc'[s].op = "sv_select")
            => prestations'[pc'[s].id].client_id = pc'[s].client
       /\ (pc[s].op = "sv_select" /\ pc'[s].op = "sv_update")
            => /\ pc'[s].client = pc[s].client
               /\ pc'[s].tarif = clients[pc[s].client]
       /\ (pc[s].op = "sv_update" /\ toast' = Notify(s, "modifiee_et_validee"))
            => prestations'[pc[s].id].tarif_horaire_utilise = pc[s].tarif]_vars

\* C28's case: "Enregistrer et valider" has just moved a row from client cA
\* (rate 1) to client cB (rate 2) and validated it: the row carries 2.
C28_Witness ==
  /\ toast = Notify("a1", "modifiee_et_validee")
  /\ clients["cA"] = 1 /\ clients["cB"] = 2
  /\ \E id \in PrestationIds :
       /\ Row(id).client_id = "cB" /\ Row(id).project_id = "pA"
       /\ Row(id).statut_validation = "valide"
       /\ Row(id).tarif_horaire_utilise = 2

\* C29: once the dashboard's role check has finished without an error, isAdmin
\* is true for a user whose stored profile has role 'admin', so that the page
\* content is rendered, and false for every other user.
C29_AdminRoleGrantsAccess ==
  (adminPage.stage = "done" /\ adminPage.error = Null)
    => /\ adminPage.isAdmin <=> (profile.exists /\ profile.role = "admin")
       /\ (profile.exists /\ profile.role = "admin") => PageView(adminPage) = "contenu"

\* C30: whenever loading is over and a user is signed in, the provider
\* renders the page or its redirection effect navigates or signs out.
C30_NoBlankScreen ==
  (~authProvider.loading /\ authProvider.user # NoUser)
    => RenderChildren(authProvider) \/ Redirection(authProvider) # "none"

====
